---- MODULE Spec2Model ----
(***************************************************************************)
(* The versioned object store client of src/iaas/s3.go: the AWSProvider    *)
(* methods, one action per provider request they issue, run by a single    *)
(* synchronous caller against one S3 bucket.                               *)
(***************************************************************************)
EXTENDS Integers, Sequences, FiniteSets, TLC

\* ---------------------------------------------------------------- bounds

\* Version ids the store hands out over a whole behaviour.
MaxVersions == 2

\* Entries per page of a version listing (the provider's page size).
PageSize == 1

\* ------------------------------------------------------------- constants

awsErrCodeNoSuchBucket == "NoSuchBucket"

awsErrCodeNoSuchKey == "NoSuchKey"

awsErrCodeNotFound == "NotFound"

\* Object keys, in the provider's listing order.
KeyOrder == <<"a", "b">>

Keys == {KeyOrder[i] : i \in 1..Len(KeyOrder)}

\* Object bodies ([]byte values).
Contents == {"x", "y"}

\* No error (Go's nil error).
Nil == "nil"

\* The transport-level failures a provider request can end in besides the
\* not-found codes.
TransportErrors == {"AccessDenied"}

\* The version id of an object written while versioning is off ("null").
NullVid == 0

\* No key / no version id in a request.
NoKey == ""

NoVid == -1

\* The regions a session can be configured for, and a request that carries no
\* CreateBucketConfiguration.
DefaultRegion == "us-east-1"
Regions == {DefaultRegion, "eu-west-1"}
NoLocation == ""

VARIABLES
    s3,      \* the bucket: [exists, versioned, entries, nextVid]
    pc,      \* the caller's position: "idle" or inside a method
    call,    \* the running (or last finished) method's arguments and locals
    trace,   \* the provider requests issued by that method, with outcomes
    last     \* what the last finished method returned

vars == <<s3, pc, call, trace, last>>

\* ------------------------------------------------------------ the store

Entry(k, v, c, m) == [key |-> k, vid |-> v, content |-> c, marker |-> m]

\* The entries of key k, oldest first.
EntriesOf(entries, k) == SelectSeq(entries, LAMBDA e : e.key = k)

\* The current entry of key k decides what GET and HEAD see.
HasCurrent(s, k) ==
    LET es == EntriesOf(s.entries, k)
    IN  Len(es) > 0 /\ ~es[Len(es)].marker

CurrentContent(s, k) ==
    LET es == EntriesOf(s.entries, k)
    IN  es[Len(es)].content

RECURSIVE Reverse(_)
Reverse(q) == IF q = <<>> THEN <<>> ELSE Append(Reverse(Tail(q)), Head(q))

\* Every retained entry, by key and newest first: the order of a listing.
RECURSIVE ListingFrom(_, _)
ListingFrom(entries, i) ==
    IF i > Len(KeyOrder) THEN <<>>
    ELSE Reverse(EntriesOf(entries, KeyOrder[i])) \o ListingFrom(entries, i + 1)

Listing(s) == ListingFrom(s.entries, 1)

Reply(s, err, out) == [s |-> s, err |-> err, out |-> out]

S3HeadBucket(s) ==
    IF s.exists THEN Reply(s, Nil, "") ELSE Reply(s, awsErrCodeNotFound, "")

\* A bucket the caller already owns is reported as such, or (in the legacy
\* region) acknowledged again.
S3CreateBucket(s, again) ==
    IF s.exists
    THEN Reply(s, IF again THEN Nil ELSE "BucketAlreadyOwnedByYou", "")
    ELSE Reply([s EXCEPT !.exists = TRUE, !.versioned = FALSE, !.entries = <<>>],
               Nil, "")

S3PutBucketVersioning(s) ==
    IF s.exists
    THEN Reply([s EXCEPT !.versioned = TRUE], Nil, "")
    ELSE Reply(s, awsErrCodeNoSuchBucket, "")

S3GetObject(s, k) ==
    IF ~s.exists THEN Reply(s, awsErrCodeNoSuchBucket, "")
    ELSE IF ~HasCurrent(s, k) THEN Reply(s, awsErrCodeNoSuchKey, "")
    ELSE Reply(s, Nil, CurrentContent(s, k))

S3HeadObject(s, k) ==
    IF ~s.exists \/ ~HasCurrent(s, k)
    THEN Reply(s, awsErrCodeNotFound, "")
    ELSE Reply(s, Nil, "")

\* The entries left when the unversioned ("null") entry of key k goes.
DropNull(entries, k) ==
    SelectSeq(entries, LAMBDA e : ~(e.key = k /\ e.vid = NullVid))

S3PutObject(s, k, c) ==
    IF ~s.exists THEN Reply(s, awsErrCodeNoSuchBucket, "")
    ELSE IF s.versioned
    THEN Reply([s EXCEPT !.entries = Append(@, Entry(k, s.nextVid, c, FALSE)),
                         !.nextVid = @ + 1], Nil, "")
    ELSE Reply([s EXCEPT !.entries =
                   Append(DropNull(@, k), Entry(k, NullVid, c, FALSE))], Nil, "")

\* DeleteObject without a version id: a versioned bucket gains a delete
\* marker, an unversioned one loses the object.
S3DeleteObject(s, k) ==
    IF ~s.exists THEN Reply(s, awsErrCodeNoSuchBucket, "")
    ELSE IF s.versioned
    THEN Reply([s EXCEPT !.entries = Append(@, Entry(k, s.nextVid, "", TRUE)),
                         !.nextVid = @ + 1], Nil, "")
    ELSE Reply([s EXCEPT !.entries = DropNull(@, k)], Nil, "")

\* DeleteObject with a version id removes exactly that entry for good.
S3DeleteObjectVersion(s, k, v) ==
    IF ~s.exists THEN Reply(s, awsErrCodeNoSuchBucket, "")
    ELSE Reply([s EXCEPT !.entries =
                   SelectSeq(@, LAMBDA e : ~(e.key = k /\ e.vid = v))], Nil, "")

S3DeleteBucket(s) ==
    IF ~s.exists THEN Reply(s, awsErrCodeNoSuchBucket, "")
    ELSE IF s.entries # <<>> THEN Reply(s, "BucketNotEmpty", "")
    ELSE Reply([s EXCEPT !.exists = FALSE, !.versioned = FALSE], Nil, "")

\* One page of ListObjectVersions, from offset `from` of the listing.
\* Mutant: the listing never moves past the page it was asked for.
PageOf_SamePage(s, from) ==
    LET all == Listing(s)
        to == IF from + PageSize < Len(all) THEN from + PageSize ELSE Len(all)
    IN  [entries |-> SubSeq(all, from + 1, to), more |-> to < Len(all), next |-> from]

PageOf(s, from) ==
    LET all == Listing(s)
        to == IF from + PageSize < Len(all) THEN from + PageSize ELSE Len(all)
    IN  [entries |-> SubSeq(all, from + 1, to), more |-> to < Len(all), next |-> to]

\* A request either reaches the store or fails in transport, untouched.
Outcome(s, reply, fail) == IF fail = Nil THEN reply ELSE Reply(s, fail, "")

\* ----------------------------------------------------------- the caller

Fails == {Nil} \cup TransportErrors

\* A failed read of a response body (ioutil.ReadAll).
ReadFails == {Nil, "ReadError"}

Req(name, k, v, err) ==
    [req |-> name, key |-> k, vid |-> v, loc |-> NoLocation, err |-> err]

Ret(op, k, arg, content, flag, err) ==
    [op |-> op, key |-> k, arg |-> arg, content |-> content, flag |-> flag,
     err |-> err]

NoRet == Ret("none", NoKey, "", "", FALSE, Nil)

\* The previous call stopped at a failed deletion with some versions deleted.
PartialTeardown ==
    /\ last.op = "DeleteVersionedBucket"
    /\ trace # <<>>
    /\ trace[Len(trace)].req = "DeleteObject"
    /\ trace[Len(trace)].err # Nil
    /\ call.idx > 1

\* A method's arguments and locals as it starts. Three history fields say what
\* it follows: `repeat`, the same method on the same key returned just before;
\* `resumed`, a teardown that follows a partial one; `follows`, a read of a key
\* right after a successful WriteFile or DeleteFile of that key.
NewCall(op, k, arg) ==
    [op |-> op, key |-> k, arg |-> arg, objects |-> <<>>, marker |-> 0, idx |-> 1,
     repeat |-> (last.op = op /\ last.key = k),
     resumed |-> (op = "DeleteVersionedBucket" /\ PartialTeardown),
     follows |-> (/\ op \in {"LoadFile", "HasFile"}
                  /\ last.op \in {"WriteFile", "DeleteFile"}
                  /\ last.key = k /\ last.err = Nil)]

\* The method returns r to the caller.
Return(r) ==
    /\ pc' = "idle"
    /\ last' = r

\* The store can still hand out a version id.
VidFree == ~(s3.exists /\ s3.versioned) \/ s3.nextVid <= MaxVersions

Init ==
    /\ s3 = [exists |-> FALSE, versioned |-> FALSE, entries |-> <<>>, nextVid |-> 1]
    /\ pc = "idle"
    /\ call = [op |-> "none", key |-> NoKey, arg |-> "", objects |-> <<>>,
               marker |-> 0, idx |-> 1, repeat |-> FALSE, resumed |-> FALSE,
               follows |-> FALSE]
    /\ trace = <<>>
    /\ last = NoRet

\* ---- WriteFile

WriteFile(k, c) ==
    /\ pc = "idle"
    /\ VidFree
    /\ \E fail \in Fails :
         LET r == Outcome(s3, S3PutObject(s3, k, c), fail)
         IN  /\ s3' = r.s
             /\ call' = NewCall("WriteFile", k, c)
             /\ trace' = <<Req("PutObject", k, NoVid, r.err)>>
             /\ Return(Ret("WriteFile", k, c, "", FALSE, r.err))

\* ---- HasFile

\* Mutant: HasFile takes only NotFound, not NoSuchKey, for an absent object.
HasFileResult_OnlyNotFound(err) ==
    IF err # Nil
    THEN IF err = awsErrCodeNotFound
         THEN [flag |-> FALSE, err |-> Nil]
         ELSE [flag |-> FALSE, err |-> err]
    ELSE [flag |-> TRUE, err |-> Nil]

\* Mutant: HasFile returns the not-found error instead of a plain false.
HasFileResult_PropagatesNotFound(err) ==
    IF err # Nil THEN [flag |-> FALSE, err |-> err] ELSE [flag |-> TRUE, err |-> Nil]

\* The (found, err) pair HasFile makes of HeadObject's error.
HasFileResult(err) ==
    IF err # Nil
    THEN IF err = awsErrCodeNotFound \/ err = awsErrCodeNoSuchKey
         THEN [flag |-> FALSE, err |-> Nil]
         ELSE [flag |-> FALSE, err |-> err]
    ELSE [flag |-> TRUE, err |-> Nil]

HasFile(k) ==
    /\ pc = "idle"
    /\ \E fail \in Fails :
         LET r == Outcome(s3, S3HeadObject(s3, k), fail)
             res == HasFileResult(r.err)
         IN  /\ s3' = r.s
             /\ call' = NewCall("HasFile", k, "")
             /\ trace' = <<Req("HeadObject", k, NoVid, r.err)>>
             /\ Return(Ret("HasFile", k, "", "", res.flag, res.err))

\* ---- LoadFile

\* Mutant: LoadFile returns without draining the response body.
LoadFile_NoDrain(k) ==
    /\ pc = "idle"
    /\ \E fail \in Fails :
         LET r == Outcome(s3, S3GetObject(s3, k), fail)
         IN  /\ s3' = r.s
             /\ call' = NewCall("LoadFile", k, "")
             /\ trace' = <<Req("GetObject", k, NoVid, r.err)>>
             /\ Return(Ret("LoadFile", k, "", "", FALSE, r.err))

LoadFile(k) ==
    /\ pc = "idle"
    /\ \E fail \in Fails, rd \in ReadFails :
         LET r == Outcome(s3, S3GetObject(s3, k), fail)
         IN  /\ s3' = r.s
             /\ call' = NewCall("LoadFile", k, "")
             /\ trace' = <<Req("GetObject", k, NoVid, r.err)>>
             /\ IF r.err # Nil
                THEN Return(Ret("LoadFile", k, "", "", FALSE, r.err))
                ELSE IF rd # Nil
                THEN Return(Ret("LoadFile", k, "", "", FALSE, rd))
                ELSE Return(Ret("LoadFile", k, "", r.out, FALSE, Nil))

\* ---- DeleteFile

\* Mutant: DeleteFile addresses the key's newest stored entry by its
\* version id.
DeleteFile_WithVersionId(k) ==
    /\ pc = "idle"
    /\ VidFree
    /\ \E fail \in Fails :
         LET es == EntriesOf(s3.entries, k)
             v == IF es = <<>> THEN NoVid ELSE es[Len(es)].vid
             r == Outcome(s3, IF es = <<>> THEN S3DeleteObject(s3, k)
                              ELSE S3DeleteObjectVersion(s3, k, v), fail)
         IN  /\ s3' = r.s
             /\ call' = NewCall("DeleteFile", k, "")
             /\ trace' = <<Req("DeleteObject", k, v, r.err)>>
             /\ Return(Ret("DeleteFile", k, "", "", FALSE, r.err))

DeleteFile(k) ==
    /\ pc = "idle"
    /\ VidFree
    /\ \E fail \in Fails :
         LET r == Outcome(s3, S3DeleteObject(s3, k), fail)
         IN  /\ s3' = r.s
             /\ call' = NewCall("DeleteFile", k, "")
             /\ trace' = <<Req("DeleteObject", k, NoVid, r.err)>>
             /\ Return(Ret("DeleteFile", k, "", "", FALSE, r.err))

\* ---- EnsureFileExists

\* Mutant: every load error sends EnsureFileExists on to create the file.
EnsureIsNotFound_AnyError(err) == err # Nil

\* The load error that sends EnsureFileExists on to create the file.
EnsureIsNotFound(err) ==
    ~(err # awsErrCodeNoSuchKey /\ err # awsErrCodeNotFound)

\* Mutant: EnsureFileExists returns its default for an object it found.
EnsureFound_Default(contents, defaultContents) == defaultContents

\* What EnsureFileExists returns for an object it found.
EnsureFound(contents, defaultContents) == contents

\* The load attempt.
EnsureFileExists(k, d) ==
    /\ pc = "idle"
    /\ VidFree
    /\ \E fail \in Fails, rd \in ReadFails :
         LET r == Outcome(s3, S3GetObject(s3, k), fail)
         IN  /\ s3' = r.s
             /\ call' = NewCall("EnsureFileExists", k, d)
             /\ trace' = <<Req("GetObject", k, NoVid, r.err)>>
             /\ IF r.err = Nil
                THEN IF rd # Nil
                     THEN Return(Ret("EnsureFileExists", k, d, "", FALSE, rd))
                     ELSE Return(Ret("EnsureFileExists", k, d,
                                     EnsureFound(r.out, d), FALSE, Nil))
                ELSE IF ~EnsureIsNotFound(r.err)
                THEN Return(Ret("EnsureFileExists", k, d, "", FALSE, r.err))
                ELSE pc' = "efe_put" /\ last' = NoRet

\* The write of the default contents.
EnsureFileExistsPut ==
    /\ pc = "efe_put"
    /\ \E fail \in Fails :
         LET r == Outcome(s3, S3PutObject(s3, call.key, call.arg), fail)
         IN  /\ s3' = r.s
             /\ call' = call
             /\ trace' = Append(trace, Req("PutObject", call.key, NoVid, r.err))
             /\ IF r.err # Nil
                THEN Return(Ret("EnsureFileExists", call.key, call.arg, "", FALSE,
                                r.err))
                ELSE Return(Ret("EnsureFileExists", call.key, call.arg, call.arg,
                                TRUE, Nil))

\* ---- BucketExists

\* Mutant: BucketExists reports a bucket that answered HEAD as absent.
BucketExistsResult_NeverExists(err) ==
    IF err # Nil /\ err # awsErrCodeNotFound /\ err # awsErrCodeNoSuchBucket
    THEN [flag |-> FALSE, err |-> err]
    ELSE [flag |-> FALSE, err |-> Nil]

\* The (exists, err) pair BucketExists makes of HeadBucket's error.
BucketExistsResult(err) ==
    IF err = Nil THEN [flag |-> TRUE, err |-> Nil]
    ELSE IF err # awsErrCodeNotFound /\ err # awsErrCodeNoSuchBucket
    THEN [flag |-> FALSE, err |-> err]
    ELSE [flag |-> FALSE, err |-> Nil]

BucketExists ==
    /\ pc = "idle"
    /\ \E fail \in Fails :
         LET r == Outcome(s3, S3HeadBucket(s3), fail)
             res == BucketExistsResult(r.err)
         IN  /\ s3' = r.s
             /\ call' = NewCall("BucketExists", NoKey, "")
             /\ trace' = <<Req("HeadBucket", NoKey, NoVid, r.err)>>
             /\ Return(Ret("BucketExists", NoKey, "", "", res.flag, res.err))

\* ---- CreateBucket

\* fmt.Errorf("error creating S3 bucket [%v]: [%v]", name, err)
CreateError(err) == "error creating S3 bucket: " \o err

\* fmt.Errorf("error enabling versioning on S3 bucket [%v]: [%v]", name, err)
VersioningError(err) == "error enabling versioning on S3 bucket: " \o err

\* The create request of CreateBucket, issued by call c after requests tr.
\* Mutant: the location constraint is set for every region.
LocationConstraint_Always(region) == region

\* The LocationConstraint of the CreateBucketInput in a session of the region.
LocationConstraint(region) ==
    IF region # DefaultRegion THEN region ELSE NoLocation

\* The CreateBucket request of call c after requests tr; the session's region
\* is kept in the call's arg.
CreateRequest(c, tr) ==
    \E fail \in Fails, again \in BOOLEAN, region \in Regions :
        LET r == Outcome(s3, S3CreateBucket(s3, again), fail)
        IN  /\ s3' = r.s
            /\ call' = [c EXCEPT !.arg = region]
            /\ trace' = Append(tr, [Req("CreateBucket", NoKey, NoVid, r.err)
                                      EXCEPT !.loc = LocationConstraint(region)])
            /\ IF r.err # Nil
               THEN Return(Ret(c.op, NoKey, "", "", FALSE, CreateError(r.err)))
               ELSE pc' = "cb_versioning" /\ last' = NoRet

CreateBucket ==
    /\ pc = "idle"
    /\ CreateRequest(NewCall("CreateBucket", NoKey, ""), <<>>)

\* The versioning request of CreateBucket. A caller that asked for the bucket
\* to be ensured is told that it was created (flag).
CreateBucketVersioning ==
    /\ pc = "cb_versioning"
    /\ \E fail \in Fails :
         LET r == Outcome(s3, S3PutBucketVersioning(s3), fail)
         IN  /\ s3' = r.s
             /\ call' = call
             /\ trace' = Append(trace, Req("PutBucketVersioning", NoKey, NoVid, r.err))
             /\ IF r.err # Nil
                THEN Return(Ret(call.op, NoKey, "", "", FALSE, VersioningError(r.err)))
                ELSE Return(Ret(call.op, NoKey, "", "", call.op = "EnsureContainer",
                                Nil))

\* ---- EnsureContainer: BucketExists, then CreateBucket when it is absent

EnsureContainer ==
    /\ pc = "idle"
    /\ \E fail \in Fails :
         LET r == Outcome(s3, S3HeadBucket(s3), fail)
             res == BucketExistsResult(r.err)
         IN  /\ s3' = r.s
             /\ call' = NewCall("EnsureContainer", NoKey, "")
             /\ trace' = <<Req("HeadBucket", NoKey, NoVid, r.err)>>
             /\ IF res.err # Nil
                THEN Return(Ret("EnsureContainer", NoKey, "", "", FALSE, res.err))
                ELSE IF res.flag
                THEN Return(Ret("EnsureContainer", NoKey, "", "", FALSE, Nil))
                ELSE pc' = "ec_create" /\ last' = NoRet

EnsureContainerCreate ==
    /\ pc = "ec_create"
    /\ CreateRequest(call, trace)

\* ---- DeleteVersionedBucket

ObjectId(e) == [key |-> e.key, vid |-> e.vid]

RECURSIVE Ids(_)
Ids(es) == IF es = <<>> THEN <<>> ELSE <<ObjectId(Head(es))>> \o Ids(Tail(es))

\* output.Versions of a listing page: the entries that are object versions.
PageVersions(page) == Ids(SelectSeq(page.entries, LAMBDA e : ~e.marker))

\* One page of the listing, requested by call c after requests tr.
ListRequest(c, tr) ==
    \E fail \in Fails :
        LET err == IF fail # Nil THEN fail
                   ELSE IF ~s3.exists THEN awsErrCodeNoSuchBucket ELSE Nil
            page == PageOf(s3, c.marker)
            objects == c.objects \o PageVersions(page)
        IN  /\ s3' = s3
            /\ trace' = Append(tr, Req("ListObjectVersions", NoKey, NoVid, err))
            /\ IF err # Nil
               THEN call' = c /\ Return(Ret(c.op, NoKey, "", "", FALSE, err))
               ELSE /\ call' = [c EXCEPT !.objects = objects, !.marker = page.next]
                    /\ pc' = IF page.more THEN "dvb_list"
                             ELSE IF objects = <<>> THEN "dvb_bucket"
                             ELSE "dvb_delete"
                    /\ last' = NoRet

DeleteVersionedBucket ==
    /\ pc = "idle"
    /\ ListRequest(NewCall("DeleteVersionedBucket", NoKey, ""), <<>>)

DeleteVersionedBucketList ==
    /\ pc = "dvb_list"
    /\ ListRequest(call, trace)

\* Mutant: the deletion loop goes on after a failed deletion.
DeleteLoopStops_Never(err) == FALSE

\* The deletion loop stops at a failed deletion.
DeleteLoopStops(err) == err # Nil

\* What DeleteVersionedBucket returns when a deletion failed.
DeleteLoopError(err) == Nil

DeleteVersionedBucketObject ==
    /\ pc = "dvb_delete"
    /\ \E fail \in Fails :
         LET object == call.objects[call.idx]
             r == Outcome(s3, S3DeleteObjectVersion(s3, object.key, object.vid), fail)
         IN  /\ s3' = r.s
             /\ trace' = Append(trace, Req("DeleteObject", object.key, object.vid, r.err))
             /\ IF DeleteLoopStops(r.err)
                THEN call' = call
                     /\ Return(Ret(call.op, NoKey, "", "", FALSE, DeleteLoopError(r.err)))
                ELSE /\ call' = [call EXCEPT !.idx = @ + 1]
                     /\ pc' = IF call.idx + 1 > Len(call.objects)
                              THEN "dvb_bucket" ELSE "dvb_delete"
                     /\ UNCHANGED last

\* After the settling delay, the bucket itself.
DeleteVersionedBucketBucket ==
    /\ pc = "dvb_bucket"
    /\ \E fail \in Fails :
         LET r == Outcome(s3, S3DeleteBucket(s3), fail)
         IN  /\ s3' = r.s
             /\ call' = call
             /\ trace' = Append(trace, Req("DeleteBucket", NoKey, NoVid, r.err))
             /\ Return(Ret(call.op, NoKey, "", "", FALSE, r.err))

\* ------------------------------------------------------ the specification

Next ==
    \/ \E k \in Keys, c \in Contents : WriteFile(k, c)
    \/ \E k \in Keys : HasFile(k)
    \/ \E k \in Keys : LoadFile(k)
    \/ \E k \in Keys : DeleteFile(k)
    \/ \E k \in Keys, d \in Contents : EnsureFileExists(k, d)
    \/ EnsureFileExistsPut
    \/ BucketExists
    \/ CreateBucket
    \/ CreateBucketVersioning
    \/ EnsureContainer
    \/ EnsureContainerCreate
    \/ DeleteVersionedBucket
    \/ DeleteVersionedBucketList
    \/ DeleteVersionedBucketObject
    \/ DeleteVersionedBucketBucket

Spec == Init /\ [][Next]_vars

\* The calls that fill and empty a bucket, and its teardown. A call is
\* synchronous: once DeleteVersionedBucket is entered, its next request is
\* issued.
NextFair ==
    \/ \E k \in Keys, c \in Contents : WriteFile(k, c)
    \/ \E k \in Keys : DeleteFile(k)
    \/ CreateBucket
    \/ CreateBucketVersioning
    \/ DeleteVersionedBucket
    \/ DeleteVersionedBucketList
    \/ DeleteVersionedBucketObject
    \/ DeleteVersionedBucketBucket

SpecFair ==
    /\ Init /\ [][NextFair]_vars
    /\ WF_vars(DeleteVersionedBucketList)
    /\ WF_vars(DeleteVersionedBucketObject)
    /\ WF_vars(DeleteVersionedBucketBucket)

\* ------------------------------------------------------------- the claims

\* The method op has returned and nothing has been called since.
Done(op) == pc = "idle" /\ last.op = op

\* This step is the first request of a call of method op.
Starts(op) == pc = "idle" /\ call'.op = op /\ trace' # <<>> /\ Len(trace') = 1

\* Some request of the running (or last) call failed in transport.
TransportFailed == \E i \in 1..Len(trace) : trace[i].err \in TransportErrors

\* Position of the call's DeleteBucket request in the trace, 0 when none.
BucketRequest ==
    IF \E i \in 1..Len(trace) : trace[i].req = "DeleteBucket"
    THEN CHOOSE i \in 1..Len(trace) : trace[i].req = "DeleteBucket"
    ELSE 0

\* The call's DeleteObject requests, in order.
DeleteRequests == SelectSeq(trace, LAMBDA r : r.req = "DeleteObject")

\* C1: EnsureFileExists on an absent key writes the default and returns it with
\* wasCreated = true; a second EnsureFileExists on that key with another
\* default, right after, writes nothing and returns the first default with
\* wasCreated = false (calls that return an error aside).
C1_EnsureTwiceFirstWins ==
    [][/\ (Starts("EnsureFileExists") /\ s3.exists /\ ~HasCurrent(s3, call'.key)
             /\ trace'[1].err \notin TransportErrors)
          => pc' = "efe_put"
       /\ (pc = "efe_put" /\ last'.err = Nil)
          => (last'.flag /\ last'.content = call.arg
              /\ HasCurrent(s3', call.key)
              /\ CurrentContent(s3', call.key) = call.arg)
       /\ (/\ Done("EnsureFileExists") /\ last.flag /\ last.err = Nil
           /\ Starts("EnsureFileExists")
           /\ call'.key = last.key /\ call'.arg # last.arg
           /\ trace'[1].err \notin TransportErrors
           /\ ~(pc' = "idle" /\ last'.err = "ReadError"))
          => (/\ pc' = "idle"
              /\ last'.err = Nil
              /\ ~last'.flag
              /\ last'.content = last.arg
              /\ last.content = last.arg
              /\ s3' = s3)
      ]_vars

\* C1 witness: a second EnsureFileExists on the same key has returned content
\* that is not its own default, with wasCreated = false.
C1_Witness ==
    /\ Done("EnsureFileExists") /\ call.repeat
    /\ last.err = Nil /\ ~last.flag
    /\ last.content # last.arg
    /\ CurrentContent(s3, last.key) = last.content

\* C2: a failed deletion of an enumerated version makes DeleteVersionedBucket
\* return that deletion's error, with no DeleteBucket request issued.
C2_DeleteFailureSurfaces ==
    (Done("DeleteVersionedBucket") /\ DeleteRequests # <<>>
       /\ DeleteRequests[Len(DeleteRequests)].err # Nil)
    => (/\ last.err = DeleteRequests[Len(DeleteRequests)].err
        /\ BucketRequest = 0)

\* C3: when the listing is complete, the versions DeleteVersionedBucket goes on
\* to delete are all entries the bucket retains, delete markers included.
C3_EnumeratesEveryEntry ==
    (call.op = "DeleteVersionedBucket" /\ pc \in {"dvb_delete", "dvb_bucket"}
       /\ call.idx = 1)
    => {call.objects[i] : i \in 1..Len(call.objects)}
         = {ObjectId(s3.entries[i]) : i \in 1..Len(s3.entries)}

\* C4: after DeleteVersionedBucket returns without error the bucket is gone
\* with nothing listable in it, and an EnsureContainer right after finds no
\* bucket and goes on to create one.
C4_DestroyLeavesNothing ==
    [][/\ (pc # "idle" /\ Done("DeleteVersionedBucket")' /\ last'.err = Nil)
          => (~s3'.exists /\ Listing(s3') = <<>>)
       /\ (Done("DeleteVersionedBucket") /\ last.err = Nil
             /\ Starts("EnsureContainer") /\ trace'[1].err \notin TransportErrors)
          => pc' = "ec_create"
      ]_vars

\* C5: the DeleteBucket request is the call's last request, and before it every
\* enumerated version got one acknowledged DeleteObject request carrying its
\* key and version id; every DeleteObject request addresses an enumerated
\* version by key and version id, in enumeration order.
C5_BucketDeletedAfterVersions ==
    call.op = "DeleteVersionedBucket"
    => /\ \A j \in 1..Len(DeleteRequests) :
             /\ j <= Len(call.objects)
             /\ DeleteRequests[j].key = call.objects[j].key
             /\ DeleteRequests[j].vid = call.objects[j].vid
             /\ DeleteRequests[j].vid # NoVid
       /\ BucketRequest # 0
          => /\ BucketRequest = Len(trace)
             /\ Len(DeleteRequests) = Len(call.objects)
             /\ \A j \in 1..Len(DeleteRequests) : DeleteRequests[j].err = Nil

\* C5 witness: a teardown that enumerated two versions has issued DeleteBucket.
C5_Witness ==
    /\ Done("DeleteVersionedBucket")
    /\ Len(call.objects) >= 2
    /\ BucketRequest # 0
    /\ last.err = Nil

\* C6: a DeleteVersionedBucket that follows a partial teardown and meets no
\* failing request deletes what is left and removes the bucket.
C6_RetryCompletes ==
    (Done("DeleteVersionedBucket") /\ call.resumed /\ ~TransportFailed)
    => (last.err = Nil /\ ~s3.exists /\ BucketRequest # 0)

\* C7: DeleteVersionedBucket on an absent bucket returns no error.
C7_AbsentBucketNoError ==
    (Done("DeleteVersionedBucket") /\ trace[1].err = awsErrCodeNoSuchBucket)
    => last.err = Nil

C9_SuccessMeansVersioned ==
    /\ (pc = "idle" /\ last.op \in {"CreateBucket", "EnsureContainer"}
          /\ last.err = Nil)
       => (s3.exists /\ s3.versioned)
    /\ (pc = "idle" /\ last.op \in {"CreateBucket", "EnsureContainer"}
          /\ trace[Len(trace)].req = "PutBucketVersioning"
          /\ trace[Len(trace)].err # Nil)
       => last.err # Nil

\* C10: a load attempt of EnsureFileExists that fails with anything but
\* NoSuchKey or NotFound ends the call with that error, wasCreated = false,
\* no write request and the store unchanged.
C10_LoadFailureNoWrite ==
    [][/\ (Starts("EnsureFileExists")
             /\ trace'[1].err \notin {Nil, awsErrCodeNoSuchKey, awsErrCodeNotFound})
          => (/\ pc' = "idle"
              /\ last'.err = trace'[1].err
              /\ ~last'.flag
              /\ s3' = s3)
       /\ (Starts("EnsureFileExists") /\ pc' = "idle" /\ last'.err = "ReadError")
          => (~last'.flag /\ s3' = s3)
       /\ (pc = "efe_put")
          => trace[1].err \in {awsErrCodeNoSuchKey, awsErrCodeNotFound}
      ]_vars

\* C10 witness: EnsureFileExists has returned a transport error for a key the
\* bucket does not hold, having issued the load request only.
C10_Witness ==
    /\ Done("EnsureFileExists")
    /\ last.err \in TransportErrors
    /\ Len(trace) = 1
    /\ s3.exists /\ ~HasCurrent(s3, last.key)

\* C11: EnsureFileExists on a key the bucket holds issues the load request
\* only and leaves the store unchanged, whatever the default; unless the load
\* or the body read fails, it returns the stored content with
\* wasCreated = false.
C11_PresentBlobUntouched ==
    [][(Starts("EnsureFileExists") /\ s3.exists /\ HasCurrent(s3, call'.key))
       => /\ pc' = "idle"
          /\ s3' = s3
          /\ trace'[1].req = "GetObject"
          /\ ~last'.flag
          /\ (trace'[1].err \notin TransportErrors /\ last'.err # "ReadError")
             => (last'.err = Nil
                 /\ last'.content = CurrentContent(s3, call'.key))
      ]_vars

\* C11 witness: EnsureFileExists, not following another EnsureFileExists on
\* the key, has returned stored content that differs from its default.
C11_Witness ==
    /\ Done("EnsureFileExists") /\ ~call.repeat
    /\ last.err = Nil /\ ~last.flag
    /\ last.content # last.arg
    /\ last.content = CurrentContent(s3, last.key)
    /\ Len(trace) = 1

\* The three provider codes for "does not exist".
NotFoundCodes == {awsErrCodeNoSuchBucket, awsErrCodeNoSuchKey, awsErrCodeNotFound}

\* Every error code a provider request can come back with.
ProviderCodes ==
    NotFoundCodes \cup TransportErrors \cup {"BucketNotEmpty", "BucketAlreadyOwnedByYou"}

\* C12 (as claimed): BucketExists, HasFile, LoadFile and EnsureFileExists each
\* take any of NoSuchBucket, NoSuchKey and NotFound for "not found" (a plain
\* false, an error for LoadFile, a write of the default for EnsureFileExists)
\* and return every other provider error unmodified.
C12_UnifiedNotFound ==
    /\ (Done("BucketExists") /\ trace[1].err # Nil)
       => IF trace[1].err \in NotFoundCodes
          THEN ~last.flag /\ last.err = Nil
          ELSE last.err = trace[1].err
    /\ (Done("HasFile") /\ trace[1].err # Nil)
       => IF trace[1].err \in NotFoundCodes
          THEN ~last.flag /\ last.err = Nil
          ELSE last.err = trace[1].err
    /\ (Done("LoadFile") /\ trace[1].err # Nil) => last.err # Nil
    /\ (call.op = "EnsureFileExists" /\ trace # <<>> /\ trace[1].err # Nil)
       => IF trace[1].err \in NotFoundCodes
          THEN pc = "efe_put" \/ Len(trace) = 2
          ELSE Done("EnsureFileExists") /\ last.err = trace[1].err

\* C12 (amended): each method takes two of the three codes for "not found":
\* BucketExists NotFound and NoSuchBucket, HasFile and EnsureFileExists
\* NotFound and NoSuchKey; LoadFile classifies nothing; every other provider
\* error, the third not-found code included, is returned unmodified.
C12_PerMethodNotFound ==
    /\ (Done("BucketExists") /\ trace[1].err # Nil)
       => IF trace[1].err \in {awsErrCodeNotFound, awsErrCodeNoSuchBucket}
          THEN ~last.flag /\ last.err = Nil
          ELSE last.err = trace[1].err
    /\ (Done("HasFile") /\ trace[1].err # Nil)
       => IF trace[1].err \in {awsErrCodeNotFound, awsErrCodeNoSuchKey}
          THEN ~last.flag /\ last.err = Nil
          ELSE last.err = trace[1].err
    /\ (Done("LoadFile") /\ trace[1].err # Nil) => last.err = trace[1].err
    /\ (call.op = "EnsureFileExists" /\ trace # <<>> /\ trace[1].err # Nil)
       => IF trace[1].err \in {awsErrCodeNotFound, awsErrCodeNoSuchKey}
          THEN pc = "efe_put" \/ Len(trace) = 2
          ELSE Done("EnsureFileExists") /\ last.err = trace[1].err /\ Len(trace) = 1
    /\ \A e \in ProviderCodes :
         /\ BucketExistsResult(e) =
              IF e \in {awsErrCodeNotFound, awsErrCodeNoSuchBucket}
              THEN [flag |-> FALSE, err |-> Nil]
              ELSE [flag |-> FALSE, err |-> e]
         /\ HasFileResult(e) =
              IF e \in {awsErrCodeNotFound, awsErrCodeNoSuchKey}
              THEN [flag |-> FALSE, err |-> Nil]
              ELSE [flag |-> FALSE, err |-> e]
         /\ EnsureIsNotFound(e) <=> e \in {awsErrCodeNotFound, awsErrCodeNoSuchKey}

\* C12 witness: EnsureFileExists has returned the NoSuchBucket of its load
\* request as an error, without going on to write.
C12_Witness ==
    /\ Done("EnsureFileExists")
    /\ trace[1].err = awsErrCodeNoSuchBucket
    /\ last.err = awsErrCodeNoSuchBucket
    /\ Len(trace) = 1

\* C13: LoadFile right after a successful WriteFile of the same key returns
\* exactly the written content (a failing request or body read aside).
C13_WriteThenLoad ==
    [][(/\ Done("WriteFile") /\ last.err = Nil
        /\ Starts("LoadFile") /\ call'.key = last.key
        /\ trace'[1].err \notin TransportErrors
        /\ last'.err # "ReadError")
       => (last'.err = Nil /\ last'.content = last.arg)
      ]_vars

\* C13 witness: LoadFile right after a WriteFile that replaced an older
\* version of the key has returned the new content.
C13_Witness ==
    /\ Done("LoadFile") /\ call.follows
    /\ last.err = Nil
    /\ last.content \in Contents
    /\ Len(EntriesOf(s3.entries, last.key)) >= 2
    /\ EntriesOf(s3.entries, last.key)[1].content # last.content

\* C14: HasFile right after a successful DeleteFile of the same key, and
\* HasFile on a key the bucket holds no entry of, return false without error
\* (a failing request aside).
C14_ExistsAfterDelete ==
    [][/\ (/\ Done("DeleteFile") /\ last.err = Nil
           /\ Starts("HasFile") /\ call'.key = last.key
           /\ trace'[1].err \notin TransportErrors)
          => (~last'.flag /\ last'.err = Nil)
       /\ (/\ Starts("HasFile")
           /\ EntriesOf(s3.entries, call'.key) = <<>>
           /\ trace'[1].err \notin TransportErrors)
          => (~last'.flag /\ last'.err = Nil)
      ]_vars

\* C14 witness: HasFile right after DeleteFile has returned false without
\* error for a key of which the bucket still retains a written version.
C14_Witness ==
    /\ Done("HasFile") /\ call.follows
    /\ ~last.flag /\ last.err = Nil
    /\ \E i \in 1..Len(s3.entries) :
         s3.entries[i].key = last.key /\ ~s3.entries[i].marker

\* C16: a DeleteVersionedBucket that stopped after deleting some but not all
\* versions returns something that is neither the success of a completed
\* teardown nor a not-found error.
C16_PartialTeardownDistinct ==
    (Done("DeleteVersionedBucket") /\ call.idx > 1
       /\ trace[Len(trace)].req = "DeleteObject" /\ trace[Len(trace)].err # Nil)
    => (last.err # Nil /\ last.err \notin NotFoundCodes)

\* The call's ListObjectVersions requests.
ListRequests == SelectSeq(trace, LAMBDA r : r.req = "ListObjectVersions")

\* The running method takes error e of its i-th request for "not found".
TakenForNotFound(i, e) ==
    /\ i = 1
    /\ \/ call.op = "EnsureFileExists" /\ EnsureIsNotFound(e)
       \/ call.op = "EnsureContainer" /\ BucketExistsResult(e).err = Nil

\* C18: within one call, a request that failed with anything the method does
\* not take for "not found" is the call's last request; no request other than
\* a listing page is issued twice for the same target, and every listing
\* request asks for a page beyond the ones already consumed.
C18_NoRetry ==
    /\ \A i \in 1..Len(trace) :
         (trace[i].err # Nil /\ ~TakenForNotFound(i, trace[i].err))
         => i = Len(trace)
    /\ \A i, j \in 1..Len(trace) :
         (i < j /\ trace[i].req # "ListObjectVersions")
         => <<trace[i].req, trace[i].key, trace[i].vid>>
              # <<trace[j].req, trace[j].key, trace[j].vid>>
    /\ Len(ListRequests) >= 1
       => /\ call.marker >= (Len(ListRequests) - 1) * PageSize
          /\ \A i \in 1..Len(ListRequests) - 1 : ListRequests[i].err = Nil

\* C18 witness: a teardown has returned at a failed deletion, its third
\* request or later.
C18_Witness ==
    /\ Done("DeleteVersionedBucket")
    /\ Len(trace) >= 3
    /\ trace[Len(trace)].req = "DeleteObject"
    /\ trace[Len(trace)].err \in TransportErrors

\* C15: the CreateBucket request carries no location constraint in a session
\* of us-east-1, and in a session of any other region it carries that region
\* as its location constraint.
C15_LocationConstraint ==
    \A i \in 1..Len(trace) :
        trace[i].req = "CreateBucket"
        => /\ call.arg \in Regions
           /\ call.arg = "us-east-1" => trace[i].loc = NoLocation
           /\ call.arg # "us-east-1"
              => (trace[i].loc = call.arg /\ trace[i].loc # NoLocation)

\* C15 witness: a bucket has been created in a session of eu-west-1 by a
\* request constrained to eu-west-1.
C15_Witness ==
    /\ Done("CreateBucket") /\ last.err = Nil
    /\ call.arg = "eu-west-1"
    /\ trace[1].req = "CreateBucket" /\ trace[1].loc = "eu-west-1"

\* ---- FakeAWSClient (testsupport): the scripted double of the provider.
\* Under SpecFake the variables hold: s3 the FakeAWSClient struct (its Fake*
\* fields), call the method called and its arguments, trace the invocations
\* of injected functions made by that call, last what the method returned.

Buckets == {"b1", "b2"}

FakeFields ==
    {"FakeDeleteFile", "FakeDeleteVersionedBucket", "FakeEnsureBucketExists",
     "FakeEnsureFileExists", "FakeHasFile", "FakeLoadFile", "FakeWriteFile"}

\* A field no function was injected in (the zero value of the struct).
Unset == "unset"

\* The functions a test injects: one that fails whatever it is given, and one
\* that succeeds with a result made of the arguments it was given.
Scripts == {"fail", "echo"}

Script(f, args) ==
    IF f = "fail"
    THEN [content |-> <<>>, flag |-> FALSE, err |-> "InjectedError"]
    ELSE [content |-> args, flag |-> TRUE, err |-> Nil]

InitFake ==
    /\ s3 = [f \in FakeFields |-> Unset]
    /\ pc = "idle"
    /\ call = [op |-> "", args |-> <<>>]
    /\ trace = <<>>
    /\ last = [op |-> "", out |-> Script("fail", <<>>)]

\* A test assigns a function to one of the struct's fields.
FakeInject ==
    /\ pc = "idle"
    /\ \E f \in FakeFields, g \in Scripts : s3' = [s3 EXCEPT ![f] = g]
    /\ UNCHANGED <<pc, call, trace, last>>

\* return client.<field>(args): a call of a nil function panics.
FakeDelegate(method, field, args) ==
    /\ s3' = s3
    /\ call' = [op |-> method, args |-> args]
    /\ IF s3[field] = Unset
       THEN pc' = "panic" /\ trace' = <<>> /\ UNCHANGED last
       ELSE LET out == Script(s3[field], args)
            IN  /\ pc' = "idle"
                /\ trace' = <<[fn |-> field, args |-> args, out |-> out]>>
                /\ last' = [op |-> method, out |-> out]

FakeAWSClient_DeleteFile ==
    /\ pc = "idle"
    /\ \E bucket \in Buckets, path \in Keys :
           FakeDelegate("DeleteFile", "FakeDeleteFile", <<bucket, path>>)

FakeAWSClient_DeleteVersionedBucket ==
    /\ pc = "idle"
    /\ \E name \in Buckets :
           FakeDelegate("DeleteVersionedBucket", "FakeDeleteVersionedBucket", <<name>>)

FakeAWSClient_EnsureBucketExists ==
    /\ pc = "idle"
    /\ \E name \in Buckets :
           FakeDelegate("EnsureBucketExists", "FakeEnsureBucketExists", <<name>>)

FakeAWSClient_EnsureFileExists ==
    /\ pc = "idle"
    /\ \E bucket \in Buckets, path \in Keys, defaultContents \in Contents :
           FakeDelegate("EnsureFileExists", "FakeEnsureFileExists",
                        <<bucket, path, defaultContents>>)

\* Mutant: HasFile asks the function injected for LoadFile.
FakeAWSClient_HasFile_WrongField ==
    /\ pc = "idle"
    /\ \E bucket \in Buckets, path \in Keys :
           FakeDelegate("HasFile", "FakeLoadFile", <<bucket, path>>)

FakeAWSClient_HasFile ==
    /\ pc = "idle"
    /\ \E bucket \in Buckets, path \in Keys :
           FakeDelegate("HasFile", "FakeHasFile", <<bucket, path>>)

FakeAWSClient_LoadFile ==
    /\ pc = "idle"
    /\ \E bucket \in Buckets, path \in Keys :
           FakeDelegate("LoadFile", "FakeLoadFile", <<bucket, path>>)

FakeAWSClient_WriteFile ==
    /\ pc = "idle"
    /\ \E bucket \in Buckets, path \in Keys, contents \in Contents :
           FakeDelegate("WriteFile", "FakeWriteFile", <<bucket, path, contents>>)

NextFake ==
    \/ FakeInject
    \/ FakeAWSClient_DeleteFile
    \/ FakeAWSClient_DeleteVersionedBucket
    \/ FakeAWSClient_EnsureBucketExists
    \/ FakeAWSClient_EnsureFileExists
    \/ FakeAWSClient_HasFile
    \/ FakeAWSClient_LoadFile
    \/ FakeAWSClient_WriteFile

SpecFake == InitFake /\ [][NextFake]_vars

\* C17: a call of a FakeAWSClient object-store method leaves the struct's
\* fields as they were, and when it returns it has invoked the function of the
\* field named after it, once, with the caller's arguments, and returns that
\* function's result, error included; it fails to return only when the field
\* holds no function.
C17_FakeDelegates ==
    [][(call' # call \/ trace' # trace \/ last' # last \/ pc' # pc)
       => /\ s3' = s3
          /\ call'.op \in {"DeleteFile", "DeleteVersionedBucket", "EnsureBucketExists",
                           "EnsureFileExists", "HasFile", "LoadFile", "WriteFile"}
          /\ IF pc' = "idle"
             THEN /\ Len(trace') = 1
                  /\ trace'[1].fn = "Fake" \o call'.op
                  /\ trace'[1].args = call'.args
                  /\ trace'[1].out = Script(s3[trace'[1].fn], call'.args)
                  /\ last' = [op |-> call'.op, out |-> trace'[1].out]
             ELSE /\ s3["Fake" \o call'.op] = Unset
                  /\ trace' = <<>>
      ]_vars

\* C17 witness: EnsureFileExists has returned the error of the function
\* injected in FakeEnsureFileExists, which took the caller's three arguments,
\* while HasFile's field holds a function that succeeds.
C17_Witness ==
    /\ pc = "idle"
    /\ call.op = "EnsureFileExists"
    /\ Len(call.args) = 3
    /\ Len(trace) = 1
    /\ trace[1].fn = "FakeEnsureFileExists"
    /\ trace[1].args = call.args
    /\ last.out.err = "InjectedError"
    /\ s3["FakeHasFile"] = "echo"

\* ---- Two callers of EnsureFileExists on one key of one bucket.
\* Under SpecConc pc, call and last are functions of the caller, and trace is
\* the sequence of provider requests in the order the provider served them,
\* each tagged with its caller.

Procs == {1, 2}

Other(p) == CHOOSE q \in Procs : q # p

InitConc ==
    \E k \in Keys, versioned \in BOOLEAN :
        /\ s3 = [exists |-> TRUE, versioned |-> versioned, entries |-> <<>>,
                 nextVid |-> 1]
        /\ pc = [p \in Procs |-> "efe_load"]
        /\ call \in {c \in [Procs -> [op : {"EnsureFileExists"}, key : {k},
                                      arg : Contents]] : c[1].arg # c[2].arg}
        /\ trace = <<>>
        /\ last = [p \in Procs |-> NoRet]

ProcRequest(p, r) == [proc |-> p, r |-> r]

\* Caller p's load attempt.
ProcEnsureFileExists(p) ==
    /\ pc[p] = "efe_load"
    /\ \E fail \in Fails, rd \in ReadFails :
         LET k == call[p].key
             d == call[p].arg
             r == Outcome(s3, S3GetObject(s3, k), fail)
             done(ret) == pc' = [pc EXCEPT ![p] = "done"]
                          /\ last' = [last EXCEPT ![p] = ret]
         IN  /\ s3' = r.s
             /\ call' = call
             /\ trace' = Append(trace, ProcRequest(p, Req("GetObject", k, NoVid, r.err)))
             /\ IF r.err = Nil
                THEN IF rd # Nil
                     THEN done(Ret("EnsureFileExists", k, d, "", FALSE, rd))
                     ELSE done(Ret("EnsureFileExists", k, d,
                                   EnsureFound(r.out, d), FALSE, Nil))
                ELSE IF ~EnsureIsNotFound(r.err)
                THEN done(Ret("EnsureFileExists", k, d, "", FALSE, r.err))
                ELSE pc' = [pc EXCEPT ![p] = "efe_put"] /\ last' = last

\* Caller p's write of its default contents.
ProcEnsureFileExistsPut(p) ==
    /\ pc[p] = "efe_put"
    /\ \E fail \in Fails :
         LET k == call[p].key
             d == call[p].arg
             r == Outcome(s3, S3PutObject(s3, k, d), fail)
         IN  /\ s3' = r.s
             /\ call' = call
             /\ trace' = Append(trace, ProcRequest(p, Req("PutObject", k, NoVid, r.err)))
             /\ pc' = [pc EXCEPT ![p] = "done"]
             /\ last' = [last EXCEPT ![p] =
                           IF r.err # Nil
                           THEN Ret("EnsureFileExists", k, d, "", FALSE, r.err)
                           ELSE Ret("EnsureFileExists", k, d, d, TRUE, Nil)]

NextConc ==
    \/ \E p \in Procs : ProcEnsureFileExists(p)
    \/ \E p \in Procs : ProcEnsureFileExistsPut(p)

SpecConc == InitConc /\ [][NextConc]_vars

\* Both callers have returned without error.
BothReturned == \A p \in Procs : pc[p] = "done" /\ last[p].err = Nil

\* The caller whose PutObject the provider served last.
LastWriter ==
    LET puts == SelectSeq(trace, LAMBDA t : t.r.req = "PutObject" /\ t.r.err = Nil)
    IN  puts[Len(puts)].proc

\* C19 (as claimed): when two EnsureFileExists calls on one absent key with
\* different defaults have both returned, at most one of them returned
\* wasCreated = true and both returned the same content, the content the key
\* holds afterwards.
C19_SeededOnce ==
    BothReturned
    => /\ ~(last[1].flag /\ last[2].flag)
       /\ last[1].content = last[2].content
       /\ last[1].content = CurrentContent(s3, call[1].key)

\* C19 (amended): every call that found the key absent wrote its own default
\* and returned it with wasCreated = true, both calls if both loaded before
\* either wrote; a call that loaded after the other's write returned the
\* other's default with wasCreated = false. The key afterwards holds the
\* default of the call whose write the provider served last, so the two
\* results agree with each other and with the store only when one call
\* created the blob.
C19_SeededPerWriter ==
    BothReturned
    => /\ \E p \in Procs : last[p].flag
       /\ \A p \in Procs :
            IF last[p].flag
            THEN last[p].content = call[p].arg
            ELSE /\ last[p].content = call[Other(p)].arg
                 /\ last[Other(p)].flag
       /\ CurrentContent(s3, call[1].key) = call[LastWriter].arg
       /\ (\E p \in Procs : ~last[p].flag)
          => /\ last[1].content = last[2].content
             /\ last[1].content = CurrentContent(s3, call[1].key)

\* C19 witness: both calls returned wasCreated = true, each with its own
\* default, and the key holds the second caller's.
C19_Witness ==
    /\ BothReturned
    /\ last[1].flag /\ last[2].flag
    /\ last[1].content # last[2].content
    /\ CurrentContent(s3, call[1].key) = last[2].content

\* A DeleteVersionedBucket call is between two of its requests.
TeardownRunning == pc \in {"dvb_list", "dvb_delete", "dvb_bucket"}

\* What the running teardown has left to do: pages to list and an entry to
\* delete for each, then versions to delete, then the bucket.
TeardownMeasure ==
    IF pc = "dvb_list" THEN 2 + 2 * Len(Listing(s3)) - call.marker
    ELSE IF pc = "dvb_delete" THEN 2 + Len(call.objects) - call.idx
    ELSE IF pc = "dvb_bucket" THEN 1
    ELSE 0

\* The requests of a returned teardown: all but the last succeeded, the last
\* is the DeleteBucket request or a failure, and before a DeleteBucket request
\* each enumerated version was deleted once, in order.
TeardownShape ==
    /\ \A i \in 1..Len(trace) - 1 : trace[i].err = Nil
    /\ trace[Len(trace)].req = "DeleteBucket" \/ trace[Len(trace)].err # Nil
    /\ trace[Len(trace)].req = "DeleteBucket"
       => /\ Len(DeleteRequests) = Len(call.objects)
          /\ \A i \in 1..Len(call.objects) :
               /\ DeleteRequests[i].key = call.objects[i].key
               /\ DeleteRequests[i].vid = call.objects[i].vid

\* C20: a DeleteVersionedBucket call terminates. Every request of a running
\* call brings it nearer its return; the listing loop ends having consumed
\* every page; the call returns after its DeleteBucket request, every
\* enumerated version deleted once, or at its first failed request; and a
\* running call does return.
C20_TeardownTerminates ==
    /\ [][/\ TeardownRunning => TeardownMeasure' < TeardownMeasure
          /\ (call'.op = "DeleteVersionedBucket" /\ pc \in {"idle", "dvb_list"}
                /\ pc' \in {"dvb_delete", "dvb_bucket"})
             => call'.marker = Len(Listing(s3))
          /\ (TeardownRunning /\ pc' = "idle") => TeardownShape'
         ]_vars
    /\ TeardownRunning ~> pc = "idle"

\* C20 witness: a teardown that listed two pages or more and deleted two
\* versions or more has returned after its DeleteBucket request.
C20_Witness ==
    /\ Done("DeleteVersionedBucket")
    /\ Len(ListRequests) >= 2
    /\ Len(DeleteRequests) >= 2
    /\ trace[Len(trace)].req = "DeleteBucket"
    /\ trace[Len(trace)].err = Nil

\* C21: DeleteFile sends its DeleteObject request without a version id, so in
\* a versioned bucket it leaves the stored entries as they are or adds one
\* delete marker of its key after them; and in a versioned bucket every step
\* that is not of a DeleteVersionedBucket call keeps every stored entry.
C21_DeleteKeepsVersions ==
    [][(s3.exists /\ s3.versioned)
       => /\ Starts("DeleteFile")
             => /\ trace'[1].req = "DeleteObject" /\ trace'[1].vid = NoVid
                /\ \/ s3'.entries = s3.entries
                   \/ /\ trace'[1].err = Nil
                      /\ Len(s3'.entries) = Len(s3.entries) + 1
                      /\ SubSeq(s3'.entries, 1, Len(s3.entries)) = s3.entries
                      /\ s3'.entries[Len(s3'.entries)].key = call'.key
                      /\ s3'.entries[Len(s3'.entries)].marker
          /\ call'.op # "DeleteVersionedBucket"
             => /\ Len(s3'.entries) >= Len(s3.entries)
                /\ SubSeq(s3'.entries, 1, Len(s3.entries)) = s3.entries
      ]_vars

\* C21 witness: DeleteFile has succeeded in a versioned bucket; the newest
\* entry is the delete marker of its key, and a version of that key written
\* before is still stored under it.
C21_Witness ==
    /\ Done("DeleteFile") /\ last.err = Nil
    /\ s3.exists /\ s3.versioned
    /\ s3.entries # <<>>
    /\ s3.entries[Len(s3.entries)].key = last.key
    /\ s3.entries[Len(s3.entries)].marker
    /\ \E i \in 1..Len(s3.entries) - 1 :
         s3.entries[i].key = last.key /\ ~s3.entries[i].marker

====
